---- MODULE Spec2Model ----
(***************************************************************************)
(* Bulk discount generation (generateDiscountCodes), CSV export, CSV        *)
(* parsing (parseCSV) and the page of ambient-discount-gen, as state       *)
(* machines.                                                               *)
(*                                                                         *)
(* Representation.  A JavaScript string is a sequence of atoms; an atom is *)
(* a TLA+ string standing for one character ("a", "5", "_", ...).  The     *)
(* fixed message literals of the source, whose characters no operation of *)
(* the code inspects, are single atoms ("Invalid name or price").          *)
(* A JavaScript value is a record tagged by its type: Undef, JStr(s),      *)
(* JNum(h), JNaN.  A number is held in hundredths (25.0 is 2500), which is *)
(* exact for the price cells of the model (at most two decimals).          *)
(***************************************************************************)
EXTENDS Integers, Sequences, FiniteSets, TLC

VARIABLES
  data,              \* generateDiscountCodes: the input rows (parameter data)
  transformFunction, \* parameter transformFunction: a string, or undefined
  i,                 \* the loop index of line 35 (0-based)
  results,           \* const results: any[]
  successCount,      \* let successCount
  errorCount,        \* let errorCount
  pc,                \* where the run is: "loop", "graphql", "sleep", "done", "thrown"
  cur,               \* the locals of the row being processed, kept across the await
  now,               \* the clock in ms since ClockBase (Date.now() = ClockBase + now)
  calls,             \* history: the remote calls issued so far, in order
  xform,             \* history: the calls of the transform snippet, in order
  delays,            \* history: the rows after which the 600 ms delay was slept
  report,            \* the value returned by generateDiscountCodes (None before)
  escaped,           \* the exception that left generateDiscountCodes (None if none)
  originalData,      \* generateCSVWithCodes: parameter originalData
  discountResults,   \* generateCSVWithCodes: parameter discountResults
  exported,          \* what the export returned or threw (None before)
  records,           \* parseCSV: the records of the file, as the decoder splits them
  emitted,           \* how many records the decoder has processed
  stream,            \* the decoder stream: "open", "ended" or "errored"
  parseHeaders,      \* let headers: string[]
  parseResults,      \* const results: any[]
  parsed,            \* how the promise of parseCSV settled (None while pending)
  content,           \* response handling: the text of the response body
  rowLocals,         \* customerName, priceValue and discountCode of the row
  decoded,           \* per response shape: what the row ended with (None before)
  file,              \* DiscountGenerator page: useState file (None is null)
  csvData,           \* useState csvData
  pageNameColumn,    \* useState nameColumn ("" when none is selected)
  pagePriceColumn,   \* useState priceColumn
  pageResults,       \* useState results
  pageOriginalData,  \* useState originalData
  error,             \* useState error ("" when there is none)
  submission         \* the form submission in flight (None when idle)

genVars == <<data, transformFunction, i, results, successCount, errorCount, pc,
             cur, now, calls, xform, delays, report, escaped>>

expVars == <<originalData, discountResults, exported>>

parseVars == <<records, emitted, stream, parseHeaders, parseResults, parsed>>

\* The variables a run of generateDiscountCodes, an export, a parse, the
\* handling of one response, or the page leaves alone.
respVars == <<content, rowLocals, decoded>>

pageVars == <<file, csvData, pageNameColumn, pagePriceColumn, pageResults,
              pageOriginalData, error, submission>>

notGenVars == <<expVars, parseVars, respVars, pageVars>>
notExpVars == <<genVars, parseVars, respVars, pageVars>>
notParseVars == <<genVars, expVars, respVars, pageVars>>
notRespVars == <<genVars, expVars, parseVars, pageVars>>
notPageVars == <<genVars, expVars, parseVars, respVars>>

-----------------------------------------------------------------------------
(* JavaScript values *)

Undef == [t |-> "undefined"]
JNaN == [t |-> "NaN"]
JStr(s) == [t |-> "string", s |-> s]
JNum(h) == [t |-> "number", n |-> h]

IsStr(v) == v.t = "string"

\* !v for the values of the model: undefined, "", NaN and 0 are falsy.
Falsy(v) ==
  \/ v.t = "undefined"
  \/ v.t = "NaN"
  \/ (v.t = "string" /\ v.s = <<>>)
  \/ (v.t = "number" /\ v.n = 0)

\* isNaN(v) for a value that parseFloat returned.
IsNaN(v) == v.t = "NaN"

\* a || b
OrElse(a, b) == IF Falsy(a) THEN b ELSE a

-----------------------------------------------------------------------------
(* Characters *)

Pound == "GBP_SIGN"      \* U+00A3, the pound sign
ACirc == "A_CIRCUMFLEX"  \* U+00C2, capital A with circumflex

DigitSeq == <<"0", "1", "2", "3", "4", "5", "6", "7", "8", "9">>
DigitChars == {DigitSeq[k] : k \in 1..10}
DigitVal(c) == (CHOOSE k \in 1..10 : DigitSeq[k] = c) - 1

LowerSeq == <<"a", "b", "c", "d", "e", "f", "g", "h", "i", "j", "k", "l", "m",
              "n", "o", "p", "q", "r", "s", "t", "u", "v", "w", "x", "y", "z">>
UpperSeq == <<"A", "B", "C", "D", "E", "F", "G", "H", "I", "J", "K", "L", "M",
              "N", "O", "P", "Q", "R", "S", "T", "U", "V", "W", "X", "Y", "Z">>
LowerChars == {LowerSeq[k] : k \in 1..26}
UpperChars == {UpperSeq[k] : k \in 1..26}

WhiteSpace == {" ", "\t", "\n"}

\* String.prototype.toUpperCase, one character.
UpperChar(c) ==
  IF c \in LowerChars THEN UpperSeq[CHOOSE k \in 1..26 : LowerSeq[k] = c] ELSE c

ToUpperCase(s) == [k \in 1..Len(s) |-> UpperChar(s[k])]

\* s.substring(0, n)
Substring0(s, n) == SubSeq(s, 1, IF Len(s) < n THEN Len(s) ELSE n)

\* s.replace(pat, ""): a string pattern removes its FIRST occurrence only.
RemoveFirst(s, pat) ==
  LET hits == {k \in 1..(Len(s) - Len(pat) + 1) : SubSeq(s, k, k + Len(pat) - 1) = pat}
  IN  IF hits = {} \/ pat = <<>> THEN s
      ELSE LET k == CHOOSE h \in hits : \A g \in hits : h <= g
           IN  SubSeq(s, 1, k - 1) \o SubSeq(s, k + Len(pat), Len(s))

\* s.trim()
RECURSIVE TrimLeft(_)
TrimLeft(s) == IF s # <<>> /\ Head(s) \in WhiteSpace THEN TrimLeft(Tail(s)) ELSE s
RECURSIVE TrimRight(_)
TrimRight(s) ==
  IF s # <<>> /\ s[Len(s)] \in WhiteSpace THEN TrimRight(SubSeq(s, 1, Len(s) - 1)) ELSE s
Trim(s) == TrimRight(TrimLeft(s))

\* The length of the longest prefix of s made of digits.
RECURSIVE DigitPrefixLen(_)
DigitPrefixLen(s) ==
  IF s # <<>> /\ Head(s) \in DigitChars THEN 1 + DigitPrefixLen(Tail(s)) ELSE 0

\* The value of a digit string, as an integer.
RECURSIVE DigitsValue(_)
DigitsValue(s) ==
  IF s = <<>> THEN 0 ELSE 10 * DigitsValue(SubSeq(s, 1, Len(s) - 1)) + DigitVal(s[Len(s)])

\* The first two decimals of a fraction digit string, in hundredths.
FractionHundredths(f) ==
  (IF Len(f) >= 1 THEN 10 * DigitVal(f[1]) ELSE 0) + (IF Len(f) >= 2 THEN DigitVal(f[2]) ELSE 0)

\* parseFloat(s): leading white space is skipped, then the longest prefix
\* [+-]? digits [. digits] (or [+-]? . digits) is read; NaN when there is none.
ParseFloat(s) ==
  LET t == TrimLeft(s)
      signed == t # <<>> /\ Head(t) \in {"+", "-"}
      u == IF signed THEN Tail(t) ELSE t
      sign == IF signed /\ Head(t) = "-" THEN -1 ELSE 1
      ni == DigitPrefixLen(u)
      afterInt == SubSeq(u, ni + 1, Len(u))
      hasDot == afterInt # <<>> /\ Head(afterInt) = "."
      nf == IF hasDot THEN DigitPrefixLen(Tail(afterInt)) ELSE 0
      frac == IF hasDot THEN SubSeq(Tail(afterInt), 1, nf) ELSE <<>>
  IN  IF ni = 0 /\ nf = 0 THEN JNaN
      ELSE JNum(sign * (100 * DigitsValue(SubSeq(u, 1, ni)) + FractionHundredths(frac)))

\* `${v}` for the values the model interpolates into messages.
TemplateStr(v) ==
  CASE v.t = "string" -> v.s
    [] v.t = "undefined" -> <<"undefined">>
    [] v.t = "NaN" -> <<"NaN">>
    [] OTHER -> <<"number">>

\* parts.join(sep)
RECURSIVE Join(_, _)
Join(parts, sep) ==
  IF parts = <<>> THEN <<>>
  ELSE IF Len(parts) = 1 THEN parts[1]
  ELSE parts[1] \o sep \o Join(Tail(parts), sep)

-----------------------------------------------------------------------------
(* Exceptions and optional members *)

\* A thrown value.  error.message is read in both catch blocks: it is the
\* message of an Error, undefined for a thrown string, number or plain
\* object, and reading it from null or undefined throws a TypeError.
ErrorObj(m) == [k |-> "Error", message |-> m]
ThrownNoMessage == [k |-> "noMessage"]
ThrownNullish == [k |-> "nullish"]
TypeError(m) == ErrorObj(<<m>>)

CanReadMessage(e) == e.k # "nullish"
MessageOf(e) == IF e.k = "Error" THEN JStr(e.message) ELSE Undef

None == [has |-> FALSE]
Some(x) == [has |-> TRUE, v |-> x]

-----------------------------------------------------------------------------
(* Inputs of generateDiscountCodes *)

MaxRows == 2       \* the longest input table of the model
DelayMs == 600     \* the setTimeout of line 189
MaxCodeLen == 50   \* the substring(0, 50) of lines 73-76
MaxEchoLen == 100  \* the substring(0, 100) of line 128

\* Column names are strings too.
nameColumn == <<"name">>
priceColumn == <<"price">>

\* row[column]: undefined when the row has no such key.
Get(row, col) == IF col \in DOMAIN row THEN JStr(row[col]) ELSE Undef

\* A row with the given name and price cells; an undefined cell is a missing key.
MkRow(n, p) ==
  LET cell == [c \in {nameColumn, priceColumn} |-> IF c = nameColumn THEN n ELSE p]
  IN  [c \in {k \in {nameColumn, priceColumn} : cell[k] # Undef} |-> cell[c].s]

NameCells ==
  { Undef, JStr(<<>>), JStr(<<"A", "l">>) }

PriceCells ==
  { Undef,
    JStr(<<"a", "b", "c">>),
    JStr(<<Pound, "2", "5", ".", "0", "0">>),
    JStr(<<ACirc, Pound, "7", ".", "5">>) }

Rows == {MkRow(n, p) : n \in NameCells, p \in PriceCells}

RECURSIVE SeqsUpTo(_, _)
SeqsUpTo(S, n) ==
  IF n = 0 THEN {<<>>}
  ELSE LET shorter == SeqsUpTo(S, n - 1)
       IN  shorter \cup {Append(q, x) : q \in {r \in shorter : Len(r) = n - 1}, x \in S}

\* The transformFunction parameter: absent, empty, blank, or a snippet.  The
\* atom "SNIPPET" stands for the text of a function body.
TransformSources ==
  { Undef, JStr(<<>>), JStr(<<" ", "\n">>), JStr(<<" ", "SNIPPET", " ">>) }

\* Line 54: transformFunction && transformFunction.trim()
TransformConfigured(tf) == ~Falsy(tf) /\ ~Falsy(JStr(Trim(tf.s)))

\* A name of 30 characters: with the 12 of the prefix, "_" and the 13 digits
\* of the timestamp it makes 56 characters, more than MaxCodeLen.
LongName ==
  <<"m", "a", "x", "i", "m", "i", "l", "i", "a", "n", "-",
    "v", "o", "n", " ", "h", "o", "h", "e", "n", "s", "t", "a", "u", "f", "e", "n",
    "-", "0", "7">>

\* Lines 56-57: what new Function("name", transformFunction)(customerName)
\* can do: return a string, return something else, or throw (a snippet that
\* does not compile throws a SyntaxError from new Function).
TransformOutcomes(name) ==
  {[k |-> "return", v |-> v] :
      v \in {JStr(Trim(name)), JStr(LongName), Undef, JNum(700)}}
  \cup
  {[k |-> "throw", e |-> e] :
      e \in {ErrorObj(<<"boom">>), ThrownNoMessage, ThrownNullish}}

\* Line 38: the price cell with "Â£" removed, parsed.
PriceOf(cell) == ParseFloat(RemoveFirst(cell, <<ACirc, Pound>>))

\* Line 42: !customerName || isNaN(priceValue)
Invalid(customerName, priceValue) == Falsy(customerName) \/ IsNaN(priceValue)

-----------------------------------------------------------------------------
(* Code synthesis, lines 70-76 *)

\* Date.now() is ClockBase + now milliseconds; ClockBase is 1700000000000,
\* written as digits, and the clock of a run stays below ClockBase + 10000.
ClockBaseDigits == <<"1", "7", "0", "0", "0", "0", "0", "0", "0">>

Pad4(n) ==
  << DigitSeq[((n \div 1000) % 10) + 1], DigitSeq[((n \div 100) % 10) + 1],
     DigitSeq[((n \div 10) % 10) + 1], DigitSeq[(n % 10) + 1] >>

\* `${timestamp}`
TimestampStr(t) == ClockBaseDigits \o Pad4(t)

\* CleanName with toUpperCase forgotten and the letters of both cases kept.
CleanName_NoUpperCase(name) ==
  [k \in 1..Len(name) |->
     IF name[k] \in UpperChars \cup LowerChars \cup DigitChars THEN name[k] ELSE "_"]

\* customerName.toUpperCase().replace(/[^A-Z0-9]/g, "_")
CleanName(name) ==
  LET up == ToUpperCase(name)
  IN  [k \in 1..Len(up) |-> IF up[k] \in UpperChars \cup DigitChars THEN up[k] ELSE "_"]

CodePrefix == <<"K", "I", "C", "K", "S", "T", "A", "R", "T", "E", "R", "_">>

DiscountCode(name, t) ==
  Substring0(CodePrefix \o CleanName(name) \o <<"_">> \o TimestampStr(t), MaxCodeLen)

-----------------------------------------------------------------------------
(* The remote call and its responses, lines 102-133 *)

\* A decoded response body: null, or an object with optional members errors,
\* data, data.discountCodeBasicCreate and its userErrors.
NullBody == [k |-> "null"]
Body(errors, create) == [k |-> "object", errors |-> errors, data |-> create]

UserError(field, message) == [field |-> field, message |-> message]

CreatedPayload == Some(Some([userErrors |-> Some(<<>>)]))

Bodies ==
  { Body(None, CreatedPayload),
    Body(None, Some(Some([userErrors |-> None]))),
    Body(None, Some(Some([userErrors |->
        Some(<<UserError(JStr(<<"code">>), <<"taken">>), UserError(Undef, <<"bad">>)>>)]))),
    Body(Some(<<<<"Throttled">>, <<"Busy">>>>), None),
    Body(Some(<<<<"Throttled">>>>), CreatedPayload),
    Body(None, Some(None)),
    Body(None, None),
    NullBody }

\* Response text: its characters, and what JSON.parse makes of it.
JsonText(body) == [chars |-> <<"{", "JSON", "}">>, json |-> Some(body)]
GarbageText == [chars |-> <<"<", "h", "t", "m", "l", ">">>, json |-> None]
Texts == {JsonText(b) : b \in Bodies} \cup {GarbageText}

\* What graphql(...) can resolve to:
\*   nullish  null or undefined
\*   json     an object with a json() accessor, which resolves to a body or rejects
\*   parsed   a plain object that is the body itself (no accessor)
\*   text     an object with a text() accessor only
\*   string   a string primitive holding the text
Responses ==
  {[shape |-> "nullish"]}
  \cup {[shape |-> "json", json |-> [k |-> "return", v |-> b]] : b \in Bodies}
  \cup {[shape |-> "json", json |-> [k |-> "throw", e |-> ErrorObj(<<"Unexpected token">>)]]}
  \cup {[shape |-> "parsed", body |-> b] : b \in Bodies \ {NullBody}}
  \cup {[shape |-> "text", text |-> x] : x \in Texts}
  \cup {[shape |-> "string", text |-> x] : x \in Texts}

\* What graphql(...) can reject with: an Error (a failed fetch, a GraphQL
\* client error) or a thrown Response object, which has no message member.
Rejections == {ErrorObj(<<"fetch failed">>), ThrownNoMessage}

\* A DiscountResult.  discountCode and amount are Undef when the member is absent.
ErrorResult(row, customer, message) ==
  [row |-> row, customer |-> customer, status |-> "error", message |-> message,
   discountCode |-> Undef, amount |-> Undef]

SuccessResult(row, customer, code, amount) ==
  [row |-> row, customer |-> customer, status |-> "success",
   message |-> <<"Discount code created successfully">>,
   discountCode |-> JStr(code), amount |-> amount]

\* Outcomes of a stretch of the try block: a result was pushed and the loop
\* continues at once (push), a result was pushed and line 189 is reached
\* (pushSleep), or an exception was thrown to the catch of line 190 (throw).
Push(r) == [k |-> "push", r |-> r]
PushSleep(r) == [k |-> "pushSleep", r |-> r]
Throw(e) == [k |-> "throw", e |-> e]

\* Interpret without the test of userErrors: a payload is a success.
Interpret_IgnoreUserErrors(body, row, c) ==
  IF body.k = "null"
  THEN Throw(TypeError("Cannot read properties of null (reading 'errors')"))
  ELSE IF body.errors.has
  THEN Push(ErrorResult(row, c.customerName,
                        <<"GraphQL errors: ">> \o Join(body.errors.v, <<", ">>)))
  ELSE IF ~body.data.has \/ ~body.data.v.has
  THEN Push(ErrorResult(row, c.customerName,
                        <<"No discountCodeBasicCreate data in response">>))
  ELSE PushSleep(SuccessResult(row, c.customerName, c.discountCode, c.priceValue))

\* Lines 140-186: the result for a decoded body.
Interpret(body, row, c) ==
  IF body.k = "null"
  THEN Throw(TypeError("Cannot read properties of null (reading 'errors')"))
  ELSE IF body.errors.has
  THEN Push(ErrorResult(row, c.customerName,
                        <<"GraphQL errors: ">> \o Join(body.errors.v, <<", ">>)))
  ELSE IF ~body.data.has \/ ~body.data.v.has
  THEN Push(ErrorResult(row, c.customerName,
                        <<"No discountCodeBasicCreate data in response">>))
  ELSE LET discountData == body.data.v.v
       IN  IF discountData.userErrors.has /\ Len(discountData.userErrors.v) > 0
           THEN LET errors == discountData.userErrors.v
                    line(e) == TemplateStr(OrElse(e.field, JStr(<<"unknown">>)))
                               \o <<": ">> \o e.message
                IN  PushSleep(ErrorResult(row, c.customerName,
                       Join([k \in 1..Len(errors) |-> line(errors[k])], <<", ">>)))
           ELSE PushSleep(SuccessResult(row, c.customerName, c.discountCode, c.priceValue))

\* Lines 109-133 followed by lines 140-186: the response is decoded by its shape.
Normalize(response, row, c) ==
  CASE response.shape = "json" ->
         IF response.json.k = "throw" THEN Throw(response.json.e)
         ELSE Interpret(response.json.v, row, c)
    [] response.shape = "parsed" /\ response.body.data.has ->
         Interpret(response.body, row, c)
    [] response.shape = "text" ->
         IF response.text.json.has THEN Interpret(response.text.json.v, row, c)
         ELSE Push(ErrorResult(row, c.customerName,
                   <<"Invalid response format: ">> \o Substring0(response.text.chars, MaxEchoLen)))
    [] response.shape = "nullish" ->
         Throw(TypeError("Cannot read properties of undefined (reading 'text')"))
    [] OTHER ->
         Throw(TypeError("response.text is not a function"))

-----------------------------------------------------------------------------
(* generateDiscountCodes as a state machine *)

\* Milliseconds that can pass while the remote call is awaited.
CallLatencies == {0, 1}

NoCur == [customerName |-> <<>>, priceValue |-> Undef, discountCode |-> <<>>]

GenInit ==
  /\ data \in SeqsUpTo(Rows, MaxRows)
  /\ transformFunction \in TransformSources
  /\ i = 0
  /\ results = <<>>
  /\ successCount = 0
  /\ errorCount = 0
  /\ pc = "loop"
  /\ cur = NoCur
  /\ now = 0
  /\ calls = <<>>
  /\ xform = <<>>
  /\ delays = <<>>
  /\ report = None
  /\ escaped = None

Row == data[i + 1]
AtRow == pc = "loop" /\ i < Len(data)
RowName == Get(Row, nameColumn)
RowPriceCell == Get(Row, priceColumn)

\* The row passed line 38 without a TypeError and the check of line 42.
Passes == AtRow /\ RowPriceCell # Undef /\ ~Invalid(RowName, PriceOf(RowPriceCell.s))

\* PushResult with the increment of errorCount forgotten at one site (line 161).
PushResult_Miscount(r) ==
  /\ results' = Append(results, r)
  /\ successCount' = successCount + (IF r.status = "success" THEN 1 ELSE 0)
  /\ errorCount' = errorCount
       + (IF r.status = "error"
             /\ r.message # <<"No discountCodeBasicCreate data in response">>
          THEN 1 ELSE 0)

\* PushResult with results.unshift(r) in place of results.push(r).
PushResult_Unshift(r) ==
  /\ results' = <<r>> \o results
  /\ successCount' = successCount + (IF r.status = "success" THEN 1 ELSE 0)
  /\ errorCount' = errorCount + (IF r.status = "error" THEN 1 ELSE 0)

\* results.push(r) with the counter increment that follows it at every site.
PushResult(r) ==
  /\ results' = Append(results, r)
  /\ successCount' = successCount + (IF r.status = "success" THEN 1 ELSE 0)
  /\ errorCount' = errorCount + (IF r.status = "error" THEN 1 ELSE 0)

\* An exception leaves generateDiscountCodes: the promise rejects, nothing is returned.
Escape(e) ==
  /\ pc' = "thrown"
  /\ escaped' = Some(e)
  /\ UNCHANGED <<data, transformFunction, i, results, successCount, errorCount,
                 cur, delays, report>>

\* The row is finished with result r and the loop goes on with the next row.
NextRowWith(r) ==
  /\ PushResult(r)
  /\ i' = i + 1
  /\ pc' = "loop"
  /\ cur' = NoCur
  /\ UNCHANGED <<data, transformFunction, delays, report, escaped>>

\* Line 38: row[priceColumn] is undefined, so .replace throws a TypeError
\* outside every try block.
PriceTypeError ==
  /\ UNCHANGED notGenVars
  /\ AtRow
  /\ RowPriceCell = Undef
  /\ Escape(TypeError("Cannot read properties of undefined (reading 'replace')"))
  /\ UNCHANGED <<now, calls, xform>>

\* Lines 42-51.
RejectInvalid ==
  /\ UNCHANGED notGenVars
  /\ AtRow
  /\ RowPriceCell # Undef
  /\ Invalid(RowName, PriceOf(RowPriceCell.s))
  /\ NextRowWith(ErrorResult(i + 1, OrElse(RowName, JStr(<<"Unknown">>)).s,
                             <<"Invalid name or price">>))
  /\ UNCHANGED <<now, calls, xform>>

\* Lines 54-67: the snippet throws.  The catch block reads error.message.
TransformThrows ==
  /\ UNCHANGED notGenVars
  /\ Passes
  /\ TransformConfigured(transformFunction)
  /\ \E o \in TransformOutcomes(RowName.s) :
       /\ o.k = "throw"
       /\ xform' = Append(xform, [row |-> i + 1, o |-> o])
       /\ IF CanReadMessage(o.e)
          THEN NextRowWith(ErrorResult(i + 1, RowName.s,
                  <<"Transform function error: ">> \o TemplateStr(MessageOf(o.e))))
          ELSE Escape(TypeError("Cannot read properties of null (reading 'message')"))
  /\ UNCHANGED <<now, calls>>

\* Lines 57 and 72: the snippet returns something that is no string, and
\* customerName.toUpperCase throws a TypeError outside every try block.
CleanNameTypeError ==
  /\ UNCHANGED notGenVars
  /\ Passes
  /\ TransformConfigured(transformFunction)
  /\ \E o \in TransformOutcomes(RowName.s) :
       /\ o.k = "return"
       /\ ~IsStr(o.v)
       /\ xform' = Append(xform, [row |-> i + 1, o |-> o])
  /\ Escape(TypeError("customerName.toUpperCase is not a function"))
  /\ UNCHANGED <<now, calls>>

\* The request of lines 79-104 for a name, at clock t, as the history keeps
\* it: its row, title, code and amount, when it was sent, how many results
\* there were then, and how it ended ("pending" while it is awaited).
Request(row, n, price, t, nResults) ==
  [row |-> row, title |-> <<"Kickstarter Backer - ">> \o n,
   code |-> DiscountCode(n, t), amount |-> price, at |-> t,
   resultsBefore |-> nResults, outcome |-> "pending"]

\* Lines 70-104: the code is synthesized and the mutation is sent.
SendFor(n) ==
  /\ cur' = [customerName |-> n, priceValue |-> PriceOf(RowPriceCell.s),
             discountCode |-> DiscountCode(n, now)]
  /\ calls' = Append(calls, Request(i + 1, n, PriceOf(RowPriceCell.s), now, Len(results)))
  /\ pc' = "graphql"
  /\ UNCHANGED <<data, transformFunction, i, results, successCount, errorCount,
                 now, delays, report, escaped>>

\* Lines 54-104 when no transform is configured.
IssueCall ==
  /\ UNCHANGED notGenVars
  /\ Passes
  /\ ~TransformConfigured(transformFunction)
  /\ SendFor(RowName.s)
  /\ UNCHANGED xform

\* Lines 54-104 when the snippet returns a string, which replaces the name.
TransformAndIssueCall ==
  /\ UNCHANGED notGenVars
  /\ Passes
  /\ TransformConfigured(transformFunction)
  /\ \E o \in TransformOutcomes(RowName.s) :
       /\ o.k = "return"
       /\ IsStr(o.v)
       /\ xform' = Append(xform, [row |-> i + 1, o |-> o])
       /\ SendFor(o.v.s)

\* Caught with a retry: the row is taken up again instead of being recorded.
Caught_Retry(e) ==
  /\ pc' = "loop"
  /\ cur' = NoCur
  /\ UNCHANGED <<data, transformFunction, i, results, successCount, errorCount,
                 delays, report, escaped>>

\* Lines 192-196: the result the catch block records.
CaughtResult(e, row, c) ==
  ErrorResult(row, c.customerName, <<"API Error: ">> \o TemplateStr(MessageOf(e)))

\* Lines 190-198: the catch block of the remote call.
Caught(e) ==
  IF CanReadMessage(e)
  THEN NextRowWith(CaughtResult(e, i + 1, cur))
  ELSE Escape(TypeError("Cannot read properties of null (reading 'message')"))

\* The last request of the history, ended.
Settle(how) == calls' = [calls EXCEPT ![Len(calls)].outcome = how]

\* Line 102: the call fails (the promise rejects).
GraphqlRejects ==
  /\ UNCHANGED notGenVars
  /\ pc = "graphql"
  /\ \E e \in Rejections : Caught(e)
  /\ \E d \in CallLatencies : now' = now + d
  /\ Settle("rejected")
  /\ UNCHANGED xform

\* Lines 102-186: the call resolves and the response is decoded and recorded.
GraphqlResolves ==
  /\ UNCHANGED notGenVars
  /\ pc = "graphql"
  /\ \E d \in CallLatencies : now' = now + d
  /\ \E response \in Responses :
       LET o == Normalize(response, i + 1, cur)
       IN  CASE o.k = "throw" -> Caught(o.e)
             [] o.k = "push" -> NextRowWith(o.r)
             [] OTHER ->
                  /\ PushResult(o.r)
                  /\ pc' = "sleep"
                  /\ UNCHANGED <<data, transformFunction, i, cur, delays,
                                 report, escaped>>
  /\ Settle("resolved")
  /\ UNCHANGED xform

\* Line 189: await new Promise((resolve) => setTimeout(resolve, 600)), then
\* the next iteration.
Sleep ==
  /\ UNCHANGED notGenVars
  /\ pc = "sleep"
  /\ now' = now + DelayMs
  /\ delays' = Append(delays, i + 1)
  /\ i' = i + 1
  /\ pc' = "loop"
  /\ cur' = NoCur
  /\ UNCHANGED <<data, transformFunction, results, successCount, errorCount,
                 calls, xform, report, escaped>>

\* Lines 201-208.
ReturnReport ==
  /\ UNCHANGED notGenVars
  /\ pc = "loop"
  /\ i = Len(data)
  /\ report' = Some([results |-> results,
                     summary |-> [total |-> Len(data), successful |-> successCount,
                                  errors |-> errorCount]])
  /\ pc' = "done"
  /\ UNCHANGED <<data, transformFunction, i, results, successCount, errorCount,
                 cur, now, calls, xform, delays, escaped>>

GenNext ==
  \/ PriceTypeError
  \/ RejectInvalid
  \/ TransformThrows
  \/ CleanNameTypeError
  \/ IssueCall
  \/ TransformAndIssueCall
  \/ GraphqlRejects
  \/ GraphqlResolves
  \/ Sleep
  \/ ReturnReport

-----------------------------------------------------------------------------
(* CSV export, csv-export.server.ts *)

MaxExportRows == 2     \* the longest originalData of the model
MaxExportResults == 2  \* the longest discountResults of the model

Quote == "\""

\* `"${s}"`
Quoted(s) == <<Quote>> \o s \o <<Quote>>

\* s.replace(/"/g, '""')
RECURSIVE EscapeQuotes(_)
EscapeQuotes(s) ==
  IF s = <<>> THEN <<>>
  ELSE (IF Head(s) = Quote THEN <<Quote, Quote>> ELSE <<Head(s)>>) \o EscapeQuotes(Tail(s))

\* The decimal digits of a natural number.
RECURSIVE NatStr(_)
NatStr(n) ==
  IF n < 10 THEN <<DigitSeq[n + 1]>> ELSE NatStr(n \div 10) \o <<DigitSeq[(n % 10) + 1]>>

\* String(x) of a number held in hundredths: 2500 is "25", 750 is "7.5".
NumStr(h) ==
  LET a == IF h < 0 THEN -h ELSE h
      f == a % 100
  IN  (IF h < 0 THEN <<"-">> ELSE <<>>)
      \o NatStr(a \div 100)
      \o (IF f = 0 THEN <<>>
          ELSE IF f % 10 = 0 THEN <<".", DigitSeq[(f \div 10) + 1]>>
          ELSE <<".", DigitSeq[(f \div 10) + 1], DigitSeq[(f % 10) + 1]>>)

\* `${v}` in the export: a string as it is, a number in decimal.
Interpolate(v) == IF v.t = "number" THEN NumStr(v.n) ELSE TemplateStr(v)

\* new Date().toISOString() at clock t: ClockBase is 2023-11-14T22:13:20.000Z
\* and t stays below 10000 ms.
IsoString(t) ==
  <<"2023-11-14T22:13:", "2", DigitSeq[(t \div 1000) + 1], ".">>
  \o SubSeq(Pad4(t % 1000), 2, 4) \o <<"Z">>

tierColumn == <<"backing_tier">>

\* A column whose name holds a double quote: the header cell "n""t" of a CSV.
noteColumn == <<"n", Quote, "t">>

\* The order of the keys of a row: the order of the CSV columns.
HeaderOrder == <<nameColumn, priceColumn, tierColumn, noteColumn>>

\* Object.keys(row)
Keys(row) == SelectSeq(HeaderOrder, LAMBDA c : c \in DOMAIN row)

\* ResultMap keyed by result.row, the conversion to a 0-based index forgotten.
ResultMap_OneBased(rs) ==
  [idx \in {rs[k].row : k \in 1..Len(rs)} |->
     rs[CHOOSE k \in 1..Len(rs) :
          /\ rs[k].row = idx
          /\ \A m \in 1..Len(rs) : rs[m].row = idx => m <= k]]

\* Lines 19-22 (and 115-118): the Map from 0-based row index to result; a
\* later result of the same row replaces an earlier one.
ResultMap(rs) ==
  [idx \in {rs[k].row - 1 : k \in 1..Len(rs)} |->
     rs[CHOOSE k \in 1..Len(rs) :
          /\ rs[k].row - 1 = idx
          /\ \A m \in 1..Len(rs) : rs[m].row - 1 = idx => m <= k]]

\* Lines 25-33.
NewHeaders(originalHeaders) ==
  originalHeaders \o << <<"Discount_Code">>, <<"Discount_Amount">>,
                        <<"Generation_Status">>, <<"Generation_Message">>,
                        <<"Generated_At">> >>

\* Line 36: the fields of the header row.
HeaderFields(newHeaders) == [k \in 1..Len(newHeaders) |-> Quoted(newHeaders[k])]

\* Lines 43-46: the fields of the original columns of a row.
OriginalValues(row, originalHeaders) ==
  [k \in 1..Len(originalHeaders) |->
     Quoted(EscapeQuotes(OrElse(Get(row, originalHeaders[k]), JStr(<<>>)).s))]

\* Lines 49-61 for a row that has a result.
NewValues(result, t) ==
  << Quoted(OrElse(result.discountCode, JStr(<<>>)).s),
     Quoted(Interpolate(OrElse(result.amount, JStr(<<>>)))),
     Quoted(OrElse(JStr(<<result.status>>), JStr(<<"not_processed">>)).s),
     Quoted(EscapeQuotes(OrElse(JStr(result.message), JStr(<<"Not processed">>)).s)),
     Quoted(IsoString(t)) >>

\* Lines 49-61 for a row without result: result?.x is undefined.
PlaceholderValues(t) ==
  << Quoted(<<>>), Quoted(<<>>), Quoted(<<"not_processed">>),
     Quoted(<<"Not processed">>), Quoted(IsoString(t)) >>

\* Lines 39-64: the fields of the data row of originalData[index + 1].
DataFields(row, index, resultMap, originalHeaders, t) ==
  OriginalValues(row, originalHeaders)
  \o (IF index \in DOMAIN resultMap THEN NewValues(resultMap[index], t)
      ELSE PlaceholderValues(t))

\* Lines 18-67: the lines of the CSV, each the sequence of its fields; the
\* first is the header.
CsvLines(rows, rs, t) ==
  LET resultMap == ResultMap(rs)
      originalHeaders == Keys(rows[1])
  IN  <<HeaderFields(NewHeaders(originalHeaders))>>
      \o [k \in 1..Len(rows) |-> DataFields(rows[k], k - 1, resultMap, originalHeaders, t)]

\* fields.join(",") and lines.join("\n")
CsvText(lines) ==
  Join([k \in 1..Len(lines) |-> Join(lines[k], <<",">>)], <<"\n">>)

\* The rows an export can be given: rows of the uploaded table, with a
\* third column, a value holding a quote, an empty value, and a short row
\* of a table whose only column has a quote in its name.
ExportRows ==
  { (nameColumn :> <<"A", "l">>) @@ (priceColumn :> <<"7", ".", "5">>)
      @@ (tierColumn :> <<"g">>),
    (nameColumn :> <<"B", Quote, "b">>) @@ (priceColumn :> <<"o", "o", "p", "s">>)
      @@ (tierColumn :> <<>>),
    (noteColumn :> <<"C">>) }

\* The results an export can be given: results as generateDiscountCodes makes
\* them, for rows 1 .. MaxExportRows + 1, in any number and order.
ExportResultsFor(k) ==
  { SuccessResult(k, <<"A", "l">>, DiscountCode(<<"A", "l">>, 0), JNum(750)),
    SuccessResult(k, <<"A", "l">>, DiscountCode(<<"A", "l">>, 1), JNum(0)),
    ErrorResult(k, <<"B", Quote, "b">>, <<"code", ": ", "say ", Quote, "x", Quote>>) }

ExportResults == UNION {ExportResultsFor(k) : k \in 1..(MaxExportRows + 1)}

GenIdle ==
  /\ data = <<>>
  /\ transformFunction = Undef
  /\ i = 0
  /\ results = <<>>
  /\ successCount = 0
  /\ errorCount = 0
  /\ pc = "idle"
  /\ cur = NoCur
  /\ calls = <<>>
  /\ xform = <<>>
  /\ delays = <<>>
  /\ report = None
  /\ escaped = None

ExportIdle ==
  /\ originalData = <<>>
  /\ discountResults = <<>>
  /\ exported = None

ExportInit ==
  /\ originalData \in SeqsUpTo(ExportRows, MaxExportRows)
  /\ discountResults \in SeqsUpTo(ExportResults, MaxExportResults)
  /\ exported = None
  /\ now \in {0, 1999}
  /\ GenIdle

\* Lines 14-16: nothing to export.
FullMergeEmpty ==
  /\ exported = None
  /\ Len(originalData) = 0 \/ Len(discountResults) = 0
  /\ exported' = Some([fn |-> "generateCSVWithCodes", k |-> "throw",
                       e |-> ErrorObj(<<"No data provided for CSV export">>)])
  /\ UNCHANGED <<originalData, discountResults>>
  /\ UNCHANGED notExpVars

\* Lines 18-67: generateCSVWithCodes returns the CSV.
FullMerge ==
  /\ exported = None
  /\ Len(originalData) # 0
  /\ Len(discountResults) # 0
  /\ LET lines == CsvLines(originalData, discountResults, now)
     IN  exported' = Some([fn |-> "generateCSVWithCodes", k |-> "return",
                           lines |-> lines, text |-> CsvText(lines)])
  /\ UNCHANGED <<originalData, discountResults>>
  /\ UNCHANGED notExpVars

\* Lines 72-80.
SummaryHeaders ==
  << <<"Row">>, <<"Customer_Name">>, <<"Discount_Code">>, <<"Discount_Amount">>,
     <<"Status">>, <<"Message">>, <<"Generated_At">> >>

\* String(v) of a value of a summary row.
StringOf(v) == Interpolate(v)

\* Lines 84-95: the fields of the summary row of a result.
SummaryFields(result, t) ==
  LET values == << JNum(result.row * 100),
                   OrElse(JStr(result.customer), JStr(<<>>)),
                   OrElse(result.discountCode, JStr(<<>>)),
                   OrElse(result.amount, JStr(<<>>)),
                   JStr(<<result.status>>),
                   OrElse(JStr(result.message), JStr(<<>>)),
                   JStr(IsoString(t)) >>
  IN  [k \in 1..Len(values) |-> Quoted(EscapeQuotes(StringOf(values[k])))]

\* Lines 82-98: the lines of the summary CSV.
SummaryLines(rs, t) ==
  <<HeaderFields(SummaryHeaders)>> \o [k \in 1..Len(rs) |-> SummaryFields(rs[k], t)]

\* Lines 71-99: generateSummaryCSV; it has no check of its argument.
SummaryExport ==
  /\ exported = None
  /\ LET lines == SummaryLines(discountResults, now)
     IN  exported' = Some([fn |-> "generateSummaryCSV", k |-> "return",
                           lines |-> lines, text |-> CsvText(lines)])
  /\ UNCHANGED <<originalData, discountResults>>
  /\ UNCHANGED notExpVars

\* Lines 106-108: r.status === "success" && r.discountCode
SuccessfulResults(rs) ==
  SelectSeq(rs, LAMBDA r : r.status = "success" /\ ~Falsy(r.discountCode))

\* The emptiness test made on all results instead of the successful ones.
NoSuccessful_AnyResult(rs) == Len(rs) = 0

\* Line 110: !successfulResults.length
NoSuccessful(rs) == Len(SuccessfulResults(rs)) = 0

\* Lines 121-122.
SuccessfulHeaders(originalHeaders) ==
  originalHeaders \o << <<"Discount_Code">>, <<"Discount_Amount">> >>

\* Line 130: the rows that are left out.
LeftOut(resultMap, index) ==
  \/ index \notin DOMAIN resultMap
  \/ resultMap[index].status # "success"

\* Lines 132-139: the fields of a row with a successful result.
SuccessfulFields(row, result, originalHeaders) ==
  OriginalValues(row, originalHeaders)
  \o << Quoted(TemplateStr(result.discountCode)), Quoted(Interpolate(result.amount)) >>

\* Lines 127-141: rows mapped to their fields or to null, the nulls removed.
RECURSIVE SuccessfulDataRows(_, _, _, _)
SuccessfulDataRows(rows, index, resultMap, originalHeaders) ==
  IF index >= Len(rows) THEN <<>>
  ELSE (IF LeftOut(resultMap, index) THEN <<>>
        ELSE <<SuccessfulFields(rows[index + 1], resultMap[index], originalHeaders)>>)
       \o SuccessfulDataRows(rows, index + 1, resultMap, originalHeaders)

\* Lines 115-143: the lines of the CSV of the successful rows.
SuccessfulLines(rows, rs) ==
  LET resultMap == ResultMap(SuccessfulResults(rs))
      originalHeaders == Keys(rows[1])
  IN  <<HeaderFields(SuccessfulHeaders(originalHeaders))>>
      \o SuccessfulDataRows(rows, 0, resultMap, originalHeaders)

\* Lines 110-112: no successful result.
SuccessfulNone ==
  /\ exported = None
  /\ NoSuccessful(discountResults)
  /\ exported' = Some([fn |-> "generateSuccessfulCodesCSV", k |-> "throw",
                       e |-> ErrorObj(<<"No successful discount codes to export">>)])
  /\ UNCHANGED <<originalData, discountResults>>
  /\ UNCHANGED notExpVars

\* Line 121: Object.keys(originalData[0]) of an empty originalData.
SuccessfulTypeError ==
  /\ exported = None
  /\ ~NoSuccessful(discountResults)
  /\ Len(originalData) = 0
  /\ exported' = Some([fn |-> "generateSuccessfulCodesCSV", k |-> "throw",
                       e |-> TypeError("Cannot convert undefined or null to object")])
  /\ UNCHANGED <<originalData, discountResults>>
  /\ UNCHANGED notExpVars

\* Lines 115-143: generateSuccessfulCodesCSV returns the CSV.
SuccessfulExport ==
  /\ exported = None
  /\ ~NoSuccessful(discountResults)
  /\ Len(originalData) # 0
  /\ LET lines == SuccessfulLines(originalData, discountResults)
     IN  exported' = Some([fn |-> "generateSuccessfulCodesCSV", k |-> "return",
                           lines |-> lines, text |-> CsvText(lines)])
  /\ UNCHANGED <<originalData, discountResults>>
  /\ UNCHANGED notExpVars

ExportNext ==
  \/ FullMergeEmpty
  \/ FullMerge
  \/ SummaryExport
  \/ SuccessfulNone
  \/ SuccessfulTypeError
  \/ SuccessfulExport

-----------------------------------------------------------------------------
(* CSV parsing, parseCSV *)

MaxDataRecords == 2   \* the most records after the header record
MaxFields == 3        \* the most fields of a record

\* The header records of the model: one column, or two.
HeaderRecords == { << <<"a">> >>, << <<"a">>, <<"b">> >> }

\* The cells of a data record.
DataCells == { <<"x">>, <<"y">> }

\* The data records: 1 .. MaxFields cells, so records with fewer fields than
\* the header, as many, and more.
DataRecords == SeqsUpTo(DataCells, MaxFields) \ {<<>>}

\* The files of the model, as the sequence of their records: the empty
\* file, or a header record and up to MaxDataRecords data records.
Files ==
  {<<>>} \cup {<<h>> \o d : h \in HeaderRecords, d \in SeqsUpTo(DataRecords, MaxDataRecords)}

\* `_${index}`: the key csv-parser gives the cell at 0-based index `index`
\* of a record when the header list has no name at that index.
SurplusKey(index) == <<"_">> \o NatStr(index)

\* The key of the cell at 1-based position j under the header list hdrs.
KeyAt(hdrs, j) == IF j <= Len(hdrs) THEN hdrs[j] ELSE SurplusKey(j - 1)

\* Line 16, csv() with its default options: the row object of a record.
\* Each cell is stored under the header of its position; a record shorter
\* than the header list leaves the later keys out; a cell beyond the header
\* list is stored under SurplusKey of its index.
WriteRow(cells, hdrs) ==
  [key \in {KeyAt(hdrs, j) : j \in 1..Len(cells)} |->
     cells[CHOOSE j \in 1..Len(cells) :
             /\ KeyAt(hdrs, j) = key
             /\ \A m \in 1..Len(cells) : KeyAt(hdrs, m) = key => m <= j]]

\* Lines 9-11.
ParseIdle ==
  /\ records = <<>>
  /\ emitted = 0
  /\ stream = "idle"
  /\ parseHeaders = <<>>
  /\ parseResults = <<>>
  /\ parsed = None

\* Lines 5-13: the file is decoded and handed to the decoder.
ParseInit ==
  /\ records \in Files
  /\ emitted = 0
  /\ stream = "open"
  /\ parseHeaders = <<>>
  /\ parseResults = <<>>
  /\ parsed = None

\* resolve and reject settle a pending promise and do nothing to a settled
\* one.
Settled(outcome) == IF parsed.has THEN parsed ELSE Some(outcome)

\* Lines 17-19: the decoder emits "headers" with the first record.
OnHeaders ==
  /\ stream = "open"
  /\ emitted = 0
  /\ Len(records) > 0
  /\ parseHeaders' = records[1]
  /\ emitted' = 1
  /\ UNCHANGED <<records, stream, parseResults, parsed>>
  /\ UNCHANGED notParseVars

\* Lines 20-25: the decoder emits "data" with the row of the next record.
OnData ==
  /\ stream = "open"
  /\ emitted >= 1
  /\ emitted < Len(records)
  /\ parseResults' = Append(parseResults, WriteRow(records[emitted + 1], records[1]))
  /\ emitted' = emitted + 1
  /\ UNCHANGED <<records, stream, parseHeaders, parsed>>
  /\ UNCHANGED notParseVars

\* Lines 26-32: the decoder emits "end" after the last record.
OnEnd ==
  /\ stream = "open"
  /\ emitted = Len(records)
  /\ parsed' = Settled([k |-> "resolve",
                        v |-> [headers |-> parseHeaders, data |-> parseResults,
                               rowCount |-> Len(parseResults)]])
  /\ stream' = "ended"
  /\ UNCHANGED <<records, emitted, parseHeaders, parseResults>>
  /\ UNCHANGED notParseVars

\* Lines 33-35: the decoder emits "error" and stops.
OnError ==
  /\ stream = "open"
  /\ parsed' = Settled([k |-> "reject",
                        e |-> ErrorObj(<<"Error parsing CSV: ", "Row exceeds the maximum size">>)])
  /\ stream' = "errored"
  /\ UNCHANGED <<records, emitted, parseHeaders, parseResults>>
  /\ UNCHANGED notParseVars

ParseNext ==
  \/ OnHeaders
  \/ OnData
  \/ OnEnd
  \/ OnError

-----------------------------------------------------------------------------
(* The handling of one response, lines 106-198, shape by shape *)

\* The response shapes that carry a body.
Shapes == {"json", "parsed", "text", "string"}

\* The locals of the row whose call is answered.
RowLocals ==
  { [customerName |-> <<"A", "l">>, priceValue |-> JNum(750),
     discountCode |-> DiscountCode(<<"A", "l">>, 0)],
    [customerName |-> LongName, priceValue |-> JNum(2500),
     discountCode |-> DiscountCode(LongName, DelayMs + 1)] }

\* What graphql(...) resolves to when the body text x arrives in a shape.
ResponseOf(shape, x) ==
  CASE shape = "json" ->
         [shape |-> "json",
          json |-> IF x.json.has THEN [k |-> "return", v |-> x.json.v]
                   ELSE [k |-> "throw", e |-> ErrorObj(<<"Unexpected token">>)]]
    [] shape = "parsed" -> [shape |-> "parsed", body |-> x.json.v]
    [] OTHER -> [shape |-> shape, text |-> x]

\* Lines 106-198 for one response: the result that is recorded for the row,
\* or the exception that leaves generateDiscountCodes.
Recorded(response, row, c) ==
  LET o == Normalize(response, row, c)
  IN  IF o.k # "throw" THEN [k |-> "result", r |-> o.r]
      ELSE IF CanReadMessage(o.e) THEN [k |-> "result", r |-> CaughtResult(o.e, row, c)]
      ELSE [k |-> "escaped", e |-> o.e]

RespIdle ==
  /\ content = GarbageText
  /\ rowLocals = NoCur
  /\ decoded = [s \in {} |-> None]

RespInit ==
  /\ content \in Texts
  /\ rowLocals \in RowLocals
  /\ decoded = [s \in Shapes \cup {"nullish"} |-> None]

\* The call resolves to `response`, which is of the given shape.
Handle(shape, response) ==
  /\ decoded[shape] = None
  /\ response \in Responses
  /\ decoded' = [decoded EXCEPT ![shape] = Some(Recorded(response, 1, rowLocals))]
  /\ UNCHANGED <<content, rowLocals>>
  /\ UNCHANGED notRespVars

\* Lines 110-112: a Response object, decoded by its json() accessor.
HandleJson ==
  /\ content \in Texts
  /\ Handle("json", ResponseOf("json", content))

\* Lines 113-115: an already parsed object.
HandleParsed ==
  /\ content.json.has
  /\ content.json.v # NullBody
  /\ Handle("parsed", ResponseOf("parsed", content))

\* Lines 116-132: an object with a text() accessor.
HandleText ==
  /\ content \in Texts
  /\ Handle("text", ResponseOf("text", content))

\* Lines 116-118: a string primitive, which has no text() accessor.
HandleString ==
  /\ content \in Texts
  /\ Handle("string", ResponseOf("string", content))

\* Lines 110-118: null or undefined.
HandleNullish ==
  /\ content \in Texts
  /\ Handle("nullish", [shape |-> "nullish"])

RespNext ==
  \/ HandleJson
  \/ HandleParsed
  \/ HandleText
  \/ HandleString
  \/ HandleNullish

-----------------------------------------------------------------------------
(* The page, app.discount-generator.tsx: component DiscountGenerator *)

\* The files the user can drop.
UploadFiles == {"backers.csv", "other.csv"}

\* The columns of an uploaded table that the selects offer.
ColumnOptions == {"name", "price"}

\* What the route action answers (lines 40-101), as useActionData gives it.
\* A table, and the results made from it, are named by the file they come
\* from.
UploadAnswer(f) == [intent |-> "upload", csvData |-> [of |-> f]]
GenerateAnswer(f) == [intent |-> "generate", results |-> [of |-> f], originalData |-> [of |-> f]]
ErrorAnswer(m) == [intent |-> "none", error |-> m]
CsvAnswer == [intent |-> "none"]

\* The answers the action can give to a submission: what was asked for, or
\* the error of the catch block (lines 98-101).
Answers(sub) ==
  CASE sub.intent = "upload" ->
         {UploadAnswer(sub.of), ErrorAnswer("Error parsing CSV")}
    [] sub.intent = "generate" ->
         {GenerateAnswer(sub.of), ErrorAnswer("generate failed")}
    [] OTHER ->
         {CsvAnswer, ErrorAnswer("No data provided for CSV export")}

PageIdle ==
  /\ file = None
  /\ csvData = None
  /\ pageNameColumn = ""
  /\ pagePriceColumn = ""
  /\ pageResults = None
  /\ pageOriginalData = None
  /\ error = ""
  /\ submission = None

\* Lines 109-116: the initial state of the component.
PageInit == PageIdle

\* Lines 141-162, handleFileUpload: the DropZone is there while no file is
\* set (line 218).  submit() starts a navigation, which replaces the one in
\* flight.
DropFile ==
  /\ file = None
  /\ \E f \in UploadFiles :
       /\ file' = Some(f)
       /\ submission' = Some([intent |-> "upload", of |-> f])
  /\ error' = ""
  /\ UNCHANGED <<csvData, pageNameColumn, pagePriceColumn, pageResults, pageOriginalData>>
  /\ UNCHANGED notPageVars

\* Lines 299-310: the selects of the mapping card, shown while csvData is set.
SelectColumns ==
  /\ csvData # None
  /\ \E n, p \in ColumnOptions \cup {""} :
       /\ <<n, p>> # <<pageNameColumn, pagePriceColumn>>
       /\ pageNameColumn' = n
       /\ pagePriceColumn' = p
  /\ UNCHANGED <<file, csvData, pageResults, pageOriginalData, error, submission>>
  /\ UNCHANGED notPageVars

\* Lines 164-181, handleGenerate: its button is there while csvData and both
\* columns are set (lines 273, 333), and is inert while it shows loading.
Generate ==
  /\ csvData # None
  /\ pageNameColumn # ""
  /\ pagePriceColumn # ""
  /\ ~(submission # None /\ submission.v.intent = "generate")
  /\ error' = ""
  /\ submission' = Some([intent |-> "generate", of |-> csvData.v.of])
  /\ UNCHANGED <<file, csvData, pageNameColumn, pagePriceColumn, pageResults, pageOriginalData>>
  /\ UNCHANGED notPageVars

\* Lines 183-192, handleExportCSV: its button is there while results are
\* shown (line 360).
ExportCsv ==
  /\ pageResults # None
  /\ pageOriginalData # None
  /\ ~(submission # None /\ submission.v.intent = "export-csv")
  /\ submission' = Some([intent |-> "export-csv", of |-> pageResults.v.of])
  /\ UNCHANGED <<file, csvData, pageNameColumn, pagePriceColumn, pageResults,
                 pageOriginalData, error>>
  /\ UNCHANGED notPageVars

\* Lines 235-247: the "Remove file" button, there while a file is set.  It
\* resets the state of the page and leaves the submission in flight alone.
RemoveFile ==
  /\ file # None
  /\ file' = None
  /\ csvData' = None
  /\ pageResults' = None
  /\ pageOriginalData' = None
  /\ pageNameColumn' = ""
  /\ pagePriceColumn' = ""
  /\ UNCHANGED <<error, submission>>
  /\ UNCHANGED notPageVars

\* Line 210: the banner of the error is dismissed.
DismissError ==
  /\ error # ""
  /\ error' = ""
  /\ UNCHANGED <<file, csvData, pageNameColumn, pagePriceColumn, pageResults,
                 pageOriginalData, submission>>
  /\ UNCHANGED notPageVars

\* Lines 120-139: the effect that runs when actionData changes.
ApplyAnswer(a) ==
  IF "error" \in DOMAIN a
  THEN /\ error' = a.error
       /\ UNCHANGED <<csvData, pageResults, pageOriginalData>>
  ELSE IF a.intent = "upload"
  THEN /\ csvData' = Some(a.csvData)
       /\ error' = ""
       /\ UNCHANGED <<pageResults, pageOriginalData>>
  ELSE IF a.intent = "generate"
  THEN /\ pageResults' = Some(a.results)
       /\ pageOriginalData' = Some(a.originalData)
       /\ error' = ""
       /\ UNCHANGED csvData
  ELSE UNCHANGED <<csvData, pageResults, pageOriginalData, error>>

\* The answer of the action to the submission in flight arrives: actionData
\* changes and the effect runs.
AnswerArrives ==
  /\ submission # None
  /\ \E a \in Answers(submission.v) : ApplyAnswer(a)
  /\ submission' = None
  /\ UNCHANGED <<file, pageNameColumn, pagePriceColumn>>
  /\ UNCHANGED notPageVars

PageNext ==
  \/ DropFile
  \/ SelectColumns
  \/ Generate
  \/ ExportCsv
  \/ RemoveFile
  \/ DismissError
  \/ AnswerArrives

-----------------------------------------------------------------------------
(* Specifications *)

vars == <<genVars, expVars, parseVars, respVars, pageVars>>

\* One run of generateDiscountCodes.
Init == GenInit /\ ExportIdle /\ ParseIdle /\ RespIdle /\ PageIdle
Next == GenNext
Spec == Init /\ [][Next]_vars

\* One call of an export function.
InitExport == ExportInit /\ ParseIdle /\ RespIdle /\ PageIdle
SpecExport == InitExport /\ [][ExportNext]_vars

\* One call of parseCSV.
InitParse == ParseInit /\ GenIdle /\ now = 0 /\ ExportIdle /\ RespIdle /\ PageIdle
SpecParse == InitParse /\ [][ParseNext]_vars

\* The handling of one response of the remote call, in each of its shapes.
InitResponse == RespInit /\ GenIdle /\ now = 0 /\ ExportIdle /\ ParseIdle /\ PageIdle
SpecResponse == InitResponse /\ [][RespNext]_vars

\* The page of the discount generator: the user's actions and the answers
\* of the route action, in any order.
InitPage == PageInit /\ GenIdle /\ now = 0 /\ ExportIdle /\ ParseIdle /\ RespIdle
SpecPage == InitPage /\ [][PageNext]_vars

-----------------------------------------------------------------------------
(* Properties of generateDiscountCodes *)

\* The loop has moved past row k (1-based).
Done(k) == k <= i
\* The run ended with an exception while row k was being processed.
AbortedAt(k) == pc = "thrown" /\ k = i + 1
CallsFor(k) == {j \in 1..Len(calls) : calls[j].row = k}
Delayed(k) == \E j \in 1..Len(delays) : delays[j] = k
HasPrefix(s, p) == Len(s) >= Len(p) /\ SubSeq(s, 1, Len(p)) = p
CountStatus(rs, st) == Cardinality({k \in 1..Len(rs) : rs[k].status = st})

\* C1: the run never ends with an exception, whatever the rows, the snippet
\* and the remote outcomes are, and the report it returns holds one result
\* per input row.
C1_NeverAborts ==
  /\ pc # "thrown"
  /\ pc = "done" => report.has /\ Len(report.v.results) = Len(data)

\* C2: a returned report has summary.total = number of input rows,
\* successful + errors = total, successful and errors equal to the numbers
\* of success and error results; and at every point of the loop
\* successCount + errorCount = number of results.
C2_SummaryCounts ==
  /\ successCount + errorCount = Len(results)
  /\ report.has =>
       LET r == report.v
       IN  /\ r.summary.total = Len(data)
           /\ r.summary.successful + r.summary.errors = r.summary.total
           /\ r.summary.successful = CountStatus(r.results, "success")
           /\ r.summary.errors = CountStatus(r.results, "error")

\* A report over two rows, one success and one error.
C2_Witness ==
  /\ report.has
  /\ report.v.summary = [total |-> 2, successful |-> 1, errors |-> 1]

\* The name is empty or absent, or the price cell is there and is no number.
BadRow(row) ==
  \/ Falsy(Get(row, nameColumn))
  \/ Get(row, priceColumn) # Undef /\ IsNaN(PriceOf(Get(row, priceColumn).s))

\* C3: a row whose name is empty or absent, or whose price is no number,
\* gets the result error / "Invalid name or price", no remote call and no
\* delay, and the loop goes on to the next row.
C3_InvalidRowRecorded ==
  \A k \in 1..Len(data) :
    BadRow(data[k]) =>
      /\ ~AbortedAt(k)
      /\ CallsFor(k) = {}
      /\ ~Delayed(k)
      /\ Done(k) => /\ results[k].status = "error"
                    /\ results[k].message = <<"Invalid name or price">>

\* C4: when the configured snippet throws for a row, the row's result is an
\* error whose message starts with "Transform function error: " and whose
\* customer is the untransformed name; there is no remote call and no delay
\* for the row, and the loop goes on.
C4_TransformThrowRecorded ==
  \A x \in 1..Len(xform) :
    xform[x].o.k = "throw" =>
      LET k == xform[x].row
      IN  /\ ~AbortedAt(k)
          /\ CallsFor(k) = {}
          /\ ~Delayed(k)
          /\ Done(k) => /\ results[k].status = "error"
                        /\ HasPrefix(results[k].message, <<"Transform function error: ">>)
                        /\ results[k].customer = data[k][nameColumn]

\* C5: when the snippet returns a value that is no string for a row, the row
\* is recorded as an error result and the run is not aborted.
C5_NonStringTransformRecorded ==
  \A x \in 1..Len(xform) :
    (xform[x].o.k = "return" /\ ~IsStr(xform[x].o.v)) =>
      LET k == xform[x].row
      IN  /\ ~AbortedAt(k)
          /\ Done(k) => results[k].status = "error"

\* The price as the specification reads a cell: every currency glyph is
\* stripped, the rest is parsed.
CurrencyGlyphs == {Pound, "$"}
SpecPrice(cell) == ParseFloat(SelectSeq(cell, LAMBDA c : c \notin CurrencyGlyphs))

\* C6: a row with a name and a price cell that is a number carrying a currency
\* glyph (Alice, pound sign then 25.00) is not rejected as invalid, and when it succeeds
\* its amount is that number.
C6_CurrencyGlyphStripped ==
  \A k \in 1..Len(results) :
    LET name == Get(data[k], nameColumn)
        cell == Get(data[k], priceColumn)
    IN  (~Falsy(name) /\ cell # Undef /\ ~IsNaN(SpecPrice(cell.s))) =>
          /\ results[k].message # <<"Invalid name or price">>
          /\ results[k].status = "success" => results[k].amount = SpecPrice(cell.s)

\* C7: rows are processed one after the other in source order: at most one
\* remote call is outstanding, the call for a row is sent only when every
\* earlier row has its result, the k-th result is the one of row k, and the
\* result sequence only grows at its end.
C7_Sequential ==
  /\ [](/\ Cardinality({j \in 1..Len(calls) : calls[j].outcome = "pending"}) <= 1
        /\ \A j \in 1..Len(calls) : calls[j].resultsBefore = calls[j].row - 1
        /\ \A k \in 1..Len(results) : results[k].row = k)
  /\ [][/\ Len(results') >= Len(results)
        /\ SubSeq(results', 1, Len(results)) = results]_vars

\* Two rows were sent to the remote API and both have their results.
C7_Witness ==
  /\ Len(calls) = 2
  /\ Len(results) = 2
  /\ calls[1].row = 1 /\ calls[2].row = 2

\* C8: every row for which a remote call was attempted is followed by the
\* 600 ms delay before the loop continues, so two consecutive remote calls
\* are at least 600 ms apart.
C8_DelayAfterEveryCall ==
  /\ \A j \in 1..Len(calls) : Done(calls[j].row) => Delayed(calls[j].row)
  /\ \A j \in 1..(Len(calls) - 1) : calls[j + 1].at - calls[j].at >= DelayMs

\* The row passed validation and, if a snippet is configured, the snippet
\* returned a string for it.
PassedAll(k) ==
  /\ ~BadRow(data[k])
  /\ Get(data[k], priceColumn) # Undef
  /\ TransformConfigured(transformFunction) =>
       \E x \in 1..Len(xform) :
         xform[x].row = k /\ xform[x].o.k = "return" /\ IsStr(xform[x].o.v)

\* C9: no retries.  A processed row has exactly one remote call if it passed
\* validation and transformation and none otherwise, no row ever has more
\* than one, and a row whose call was rejected is recorded as an error and
\* the loop goes on.
C9_NoRetries ==
  /\ \A k \in 1..Len(data) : Cardinality(CallsFor(k)) <= 1
  /\ \A k \in 1..Len(data) :
       Done(k) => Cardinality(CallsFor(k)) = (IF PassedAll(k) THEN 1 ELSE 0)
  /\ \A j \in 1..Len(calls) :
       calls[j].outcome = "rejected" =>
         /\ Done(calls[j].row)
         /\ results[calls[j].row].status = "error"

\* The call of row 1 was rejected and row 2 has been sent.
C9_Witness ==
  /\ Len(calls) = 2
  /\ calls[1].outcome = "rejected"
  /\ calls[1].row = 1 /\ calls[2].row = 2

-----------------------------------------------------------------------------
(* Properties of generateCSVWithCodes *)

\* The export function fn was called, and it returned a CSV.
Ran(fn) == exported.has /\ exported.v.fn = fn
Returned(fn) == Ran(fn) /\ exported.v.k = "return"

\* The field the export writes for the value of column h in a row.
ExpectedCell(row, h) == Quoted(EscapeQuotes(IF h \in DOMAIN row THEN row[h] ELSE <<>>))

\* C10: the full-merge export of non-empty rows and results has a header of
\* (original columns + 5) fields and one data line per original row, in row
\* order, each as long as the header; the appended fields of the row at
\* 0-based index k - 1 are those of a result whose row is k, or the
\* placeholders "", "not_processed", "Not processed" when there is none; an
\* error result gives code "" and a status other than "success".
C10_FullMergeShape ==
  Returned("generateCSVWithCodes") =>
    LET lines == exported.v.lines
        headers == Keys(originalData[1])
        n == Len(headers)
    IN  /\ Len(lines[1]) = n + 5
        /\ Len(lines) = Len(originalData) + 1
        /\ \A k \in 1..Len(originalData) :
             LET line == lines[k + 1]
                 matching == {m \in 1..Len(discountResults) : discountResults[m].row = k}
             IN  /\ Len(line) = Len(lines[1])
                 /\ \A j \in 1..n : line[j] = ExpectedCell(originalData[k], headers[j])
                 /\ IF matching = {}
                    THEN /\ line[n + 1] = Quoted(<<>>)
                         /\ line[n + 3] = Quoted(<<"not_processed">>)
                         /\ line[n + 4] = Quoted(<<"Not processed">>)
                    ELSE \E m \in matching :
                           /\ SubSeq(line, n + 1, n + 4)
                                = SubSeq(NewValues(discountResults[m], now), 1, 4)
                           /\ discountResults[m].status = "error" =>
                                /\ line[n + 1] = Quoted(<<>>)
                                /\ line[n + 3] # Quoted(<<"success">>)

\* An export of two rows of three columns: row 1 has an error result, row 2
\* has none, and one result is of a row that does not exist.
C10_Witness ==
  /\ Returned("generateCSVWithCodes")
  /\ Len(originalData) = 2
  /\ Len(Keys(originalData[1])) = 3
  /\ Len(discountResults) = 2
  /\ discountResults[1].row = 3
  /\ discountResults[2].row = 1
  /\ discountResults[2].status = "error"

\* C11: an export that was given zero input rows or zero results fails and
\* produces no CSV text, whichever of the three exports it is (the summary
\* export is given results only).
C11_EmptyExportFails ==
  exported.has =>
    LET takesRows == exported.v.fn # "generateSummaryCSV"
    IN  ((takesRows /\ Len(originalData) = 0) \/ Len(discountResults) = 0)
          => exported.v.k = "throw"

\* The rows, in order, that have a result with status success whose row is
\* their 1-based position.
SuccessfulRowNumbers ==
  SelectSeq([k \in 1..Len(originalData) |-> k],
            LAMBDA k : \E m \in 1..Len(discountResults) :
                         /\ discountResults[m].row = k
                         /\ discountResults[m].status = "success")

\* C12: the successful-only export fails with "No successful discount codes
\* to export" when no result has status success; given rows and at least one
\* successful result it returns a CSV whose data lines are exactly the
\* original rows, in order, that have a successful result of their 1-based
\* position, so no row with only error results or without result appears.
C12_SuccessfulOnly ==
  Ran("generateSuccessfulCodesCSV") =>
    LET anySuccess == \E m \in 1..Len(discountResults) :
                        discountResults[m].status = "success"
    IN  /\ ~anySuccess =>
              /\ exported.v.k = "throw"
              /\ exported.v.e = ErrorObj(<<"No successful discount codes to export">>)
        /\ (anySuccess /\ Len(originalData) > 0) =>
              /\ exported.v.k = "return"
              /\ LET lines == exported.v.lines
                     headers == Keys(originalData[1])
                     kept == SuccessfulRowNumbers
                 IN  /\ Len(lines) = Len(kept) + 1
                     /\ \A j \in 1..Len(kept) :
                          \A h \in 1..Len(headers) :
                            lines[j + 1][h] = ExpectedCell(originalData[kept[j]], headers[h])

\* Two rows, the first with an error result and the second with a
\* successful one: the CSV has the second row only.
C12_Witness ==
  /\ Returned("generateSuccessfulCodesCSV")
  /\ Len(originalData) = 2
  /\ originalData[1] # originalData[2]
  /\ Len(discountResults) = 2
  /\ discountResults[1].row = 1
  /\ discountResults[1].status = "error"
  /\ discountResults[2].row = 2
  /\ discountResults[2].status = "success"
  /\ Len(exported.v.lines) = 2

\* The text between the quotes of a field has its double quotes in pairs.
RECURSIVE QuotesDoubled(_)
QuotesDoubled(s) ==
  IF s = <<>> THEN TRUE
  ELSE IF Head(s) # Quote THEN QuotesDoubled(Tail(s))
  ELSE Len(s) >= 2 /\ s[2] = Quote /\ QuotesDoubled(Tail(Tail(s)))

WellQuoted(field) ==
  /\ Len(field) >= 2
  /\ field[1] = Quote
  /\ field[Len(field)] = Quote
  /\ QuotesDoubled(SubSeq(field, 2, Len(field) - 1))

\* C13: every field of every line of the full-merge export, the header names
\* and the appended fields included, is wrapped in double quotes and has
\* every double quote inside doubled.
C13_EveryFieldQuoted ==
  Returned("generateCSVWithCodes") =>
    \A k \in 1..Len(exported.v.lines) :
      \A j \in 1..Len(exported.v.lines[k]) : WellQuoted(exported.v.lines[k][j])

\* The set of the elements of a sequence.
Range(q) == {q[k] : k \in 1..Len(q)}

\* C14: a table returned by parseCSV has rowCount = length(data), its rows
\* in the order of the records, the first record as its header list, and
\* every row keyed by headers only, also for a record with more or fewer
\* fields than the header; after a decoder error the promise is rejected
\* with "Error parsing CSV: ..." and no table is returned.
C14_ParsedTable ==
  /\ (parsed.has /\ parsed.v.k = "resolve") =>
       LET table == parsed.v.v
       IN  /\ table.rowCount = Len(table.data)
           /\ Len(table.data) = Len(records) - (IF records = <<>> THEN 0 ELSE 1)
           /\ table.headers = (IF records = <<>> THEN <<>> ELSE records[1])
           /\ \A k \in 1..Len(table.data) :
                /\ \A j \in 1..Len(table.headers) :
                     j <= Len(records[k + 1]) =>
                       /\ table.headers[j] \in DOMAIN table.data[k]
                       /\ table.data[k][table.headers[j]] = records[k + 1][j]
                /\ DOMAIN table.data[k] \subseteq Range(table.headers)
  /\ stream = "errored" =>
       /\ parsed.has
       /\ parsed.v.k = "reject"
       /\ parsed.v.e.message[1] = "Error parsing CSV: "

\* The name a remote call was made for.
NameOf(call) == Tail(call.title)

\* C15: within one run, two rows whose codes were synthesized at different
\* timestamps have different discount codes, whatever their names.
C15_DistinctCodes ==
  \A j, k \in 1..Len(calls) :
    calls[j].at # calls[k].at => calls[j].code # calls[k].code

\* The capital of each small letter.
Capital == [c \in LowerChars |-> UpperSeq[CHOOSE n \in 1..26 : LowerSeq[n] = c]]

\* The characters of [A-Z0-9] and of [A-Z0-9_].
KeptChars == UpperChars \cup DigitChars
CodeChars == KeptChars \cup {"_"}

\* The character of a cleaned name at a character c of the name.
CleanedChar(c) ==
  IF c \in KeptChars THEN c
  ELSE IF c \in LowerChars THEN Capital[c]
  ELSE "_"

\* "KICKSTARTER_" + cleaned name + "_" + millisecond timestamp
UncutCode(name, t) ==
  <<"K", "I", "C", "K", "S", "T", "A", "R", "T", "E", "R", "_">>
  \o [k \in 1..Len(name) |-> CleanedChar(name[k])]
  \o <<"_">> \o ClockBaseDigits \o Pad4(t)

\* C18: every synthesized code is the first 50 characters of "KICKSTARTER_"
\* + cleaned name + "_" + timestamp, so it has at most 50 characters, starts
\* with "KICKSTARTER_" and has only characters of [A-Z0-9_].
C18_CodeShape ==
  \A j \in 1..Len(calls) :
    LET code == calls[j].code
        uncut == UncutCode(NameOf(calls[j]), calls[j].at)
    IN  /\ code = SubSeq(uncut, 1, IF Len(uncut) < 50 THEN Len(uncut) ELSE 50)
        /\ Len(code) <= 50
        /\ SubSeq(code, 1, 12) = <<"K", "I", "C", "K", "S", "T", "A", "R", "T", "E", "R", "_">>
        /\ \A k \in 1..Len(code) : code[k] \in CodeChars

\* A run with a code that was cut at 50 characters and a code that was not,
\* of a name with a lower-case letter.
C18_Witness ==
  /\ Len(calls) = 2
  /\ Len(NameOf(calls[1])) = 30
  /\ Len(calls[1].code) = 50
  /\ NameOf(calls[2]) = <<"A", "l">>
  /\ Len(calls[2].code) < 50

\* The result recorded for the response in a shape, once it was handled.
Handled(shape) == decoded[shape].has
ResultIn(shape) == decoded[shape].v.r

\* The body of the response (it has one unless the text is no JSON).
ContentBody == content.json.v
HasBody == content.json.has /\ ContentBody # NullBody

\* C16: the same response content gives a result of the same status and
\* message whether it arrives as an already-parsed structure, behind a
\* JSON-decoding accessor, or as text behind a text accessor; and whatever
\* arrives, decodable or not, the row gets a result and no exception leaves
\* the run, the result being an error when nothing could be decoded.
C16_UniformShapes ==
  /\ \A s \in DOMAIN decoded :
       Handled(s) =>
         /\ decoded[s].v.k = "result"
         /\ ~content.json.has => ResultIn(s).status = "error"
  /\ HasBody =>
       \A s1, s2 \in {"parsed", "json", "text"} :
         (Handled(s1) /\ Handled(s2)) =>
           /\ ResultIn(s1).status = ResultIn(s2).status
           /\ ResultIn(s1).message = ResultIn(s2).message

\* The messages a body reports: its top-level errors and its user errors.
TopLevelErrors == IF ContentBody.errors.has THEN ContentBody.errors.v ELSE <<>>
HasPayload == ContentBody.data.has /\ ContentBody.data.v.has
UserErrors ==
  IF HasPayload /\ ContentBody.data.v.v.userErrors.has
  THEN ContentBody.data.v.v.userErrors.v ELSE <<>>

\* sub occurs in s as a run of consecutive elements.
Contains(s, sub) ==
  \E k \in 0..(Len(s) - Len(sub)) : SubSeq(s, k + 1, k + Len(sub)) = sub

\* The parts of a comma-joined message.
RECURSIVE CommaJoined(_)
CommaJoined(parts) ==
  IF Len(parts) = 0 THEN <<>>
  ELSE IF Len(parts) = 1 THEN parts[1]
  ELSE parts[1] \o <<", ">> \o CommaJoined(Tail(parts))

C19_ResultsWithTheirFile ==
  /\ csvData # None => (file # None /\ csvData.v.of = file.v)
  /\ pageResults # None =>
       /\ file # None
       /\ csvData # None
       /\ pageResults.v.of = file.v
       /\ pageResults.v.of = csvData.v.of

====
